---- MODULE Spec2Model ----
(***************************************************************************)
(* Per-chunk analysis pipeline of the ni-dsa-sync examples.                *)
(*                                                                         *)
(*   ChnlExpSync.c : EveryNCallback (read, split of the interleaved        *)
(*                   buffer, DFT) and DFT (dominant-bin scan, phase skew). *)
(*   RefClkSync.c  : DFT (per-bin phase skew gated by a magnitude floor).  *)
(*   both          : NormalizePhaseAngleDifference.                        *)
(*                                                                         *)
(* Numbers.  Samples and the real and imaginary parts of a bin are         *)
(* integers.  A magnitude sqrt(re*re + im*im) is kept as its square, an    *)
(* integer: sqrt is monotone, so comparing squares is comparing            *)
(* magnitudes, and the conversion of a magnitude to int is the integer     *)
(* square root.  Phases are in whole degrees; bins lie on the axes or the  *)
(* diagonals, where atan2 is a multiple of 45 degrees (the program's       *)
(* factor 180/PI, PI = 3.14159265, is taken as exactly 180/pi).  A double  *)
(* that is a quotient is kept as a fraction num/den, with the IEEE-754     *)
(* results of a division by zero (inf, nan) as kinds of their own.         *)
(*                                                                         *)
(* fftw_execute is a library call.  Its output bins are computed where the *)
(* transform of integer samples is an integer (bin 0, and bin n/2 of an    *)
(* even n) and are any value of BinValues elsewhere; an all-zero input     *)
(* gives an all-zero spectrum.                                             *)
(***************************************************************************)
EXTENDS Integers, Sequences, FiniteSets, TLC

\* ------------------------------------------------------------------ bounds
\* Largest chunk length (sampsPerChan) of the callback specification Spec.
MaxChunk == 3
\* Largest chunk length of the DFT specification SpecDFT.
MaxN == 4
\* Largest real or imaginary part of a bin that fftw_execute is let to return.
MaxAmp == 5
\* Raw phase differences of SpecNorm range over -PhaseBound .. PhaseBound.
PhaseBound == 359
\* EveryNCallback is called at most MaxCallbacks times in a run.
MaxCallbacks == 2

\* ------------------------------------------------------- program constants
sampleRate == 10000
maxVal == 5
MagnitudeFloor == 5

\* --------------------------------------------------------------- variables
VARIABLES
  pc,                    \* ChnlExpSync: position in EveryNCallback / DFT
  n,                     \* sampsPerChan
  totalData,             \* EveryNCallback: interleaved buffer, 0 .. 2n-1
  dsaData, mioData,      \* EveryNCallback: per-channel buffers, 0 .. n-1
  i, j,                  \* EveryNCallback: indices of the split loop
  dsaOutput, mioOutput,  \* DFT: one-sided spectra, 0 .. nc-1, bins <<re, im>>
  dft_i,                 \* DFT: index i of the loop over the bins
  maxMagnitude,          \* DFT (ChnlExpSync): int maxMagnitude
  maxMagnitudeIndex,     \* DFT (ChnlExpSync): int maxMagnitudeIndex
  measuredFreq, measuredPhaseSkewDeg, measuredPhaseSkewSec,
                         \* ChnlExpSync EveryNCallback: the outputs of DFT
  rc_pc,                 \* RefClkSync: position in DFT
  rc_i,                  \* RefClkSync DFT: index i of the loop over the bins
  rc_measuredFreq, rc_measuredPhaseSkewDeg, rc_measuredPhaseSkewSec,
                         \* RefClkSync EveryNCallback: the outputs of DFT
  npc,                   \* position of a call of NormalizePhaseAngleDifference
  phase,                 \* its argument
  normalized,            \* what ChnlExpSync's copy returns
  rc_normalized,         \* what RefClkSync's copy returns
  tasks,                 \* the DAQmx task each handle variable names: its state
  error,                 \* EveryNCallback: int32 error
  samplesReadPerChan,    \* EveryNCallback: int32 samplesReadPerChan
  dsaRead, mioRead,      \* EveryNCallback: int32 dsaRead, mioRead
  dsaTotalRead, mioTotalRead,
                         \* EveryNCallback: static int32 totals
  dftRows, voltageRows,  \* lines written to DFTData.csv, VoltageData.csv
  chunks,                \* calls of EveryNCallback so far
  passes, prints,        \* calls of DFT, measurement lines printed, in the
                         \* latest call of EveryNCallback
  atEntry,               \* the rows and totals when that call began
  nullUsed,              \* a null buffer or plan was handed to StoreData / FFTW
  prog,                  \* which of the three programs runs
  mainpc,                \* main: where it is
  m_error,               \* main: int32 error
  m_k,                   \* main: which task of the sequence it is at
  handles,               \* the globals taskHandle / DSATaskHandle, MIOTaskHandle
  started,               \* the tasks DAQmxStartTask has started, in order
  mainCalls,             \* the stop and clear calls and resets of main's cleanup
  status,                \* DoneCallback: int32 status
  cb_k,                  \* callback error path: which task it is at
  staleCall,             \* a stop or clear call was made on a cleared task
  files,                 \* ChnlExpSync: the two CSV files main opens
  lateWrite              \* a row was written to a file after its fclose

chunkVars == <<n, totalData, dsaData, mioData, i, j>>
dftVars == <<dsaOutput, mioOutput, dft_i, maxMagnitude, maxMagnitudeIndex>>
outVars == <<measuredFreq, measuredPhaseSkewDeg, measuredPhaseSkewSec>>
rcVars == <<rc_pc, rc_i, rc_measuredFreq, rc_measuredPhaseSkewDeg,
            rc_measuredPhaseSkewSec>>
normVars == <<npc, phase, normalized, rc_normalized>>
readVars == <<samplesReadPerChan, dsaRead, mioRead>>
totalVars == <<dsaTotalRead, mioTotalRead>>
logVars == <<dftRows, voltageRows>>
countVars == <<chunks, passes, prints, atEntry>>
cbVars == <<tasks, error, readVars, totalVars, logVars, countVars, nullUsed>>
progVars == <<prog, mainpc, m_error, m_k, handles, started, mainCalls, status,
              cb_k>>
progVars_NoCb ==
  <<prog, mainpc, m_error, m_k, handles, started, mainCalls, status>>
fileVars == <<files, lateWrite>>
vars ==
  <<pc, chunkVars, dftVars, outVars, rcVars, normVars, cbVars, progVars,
    staleCall, fileVars>>

\* ----------------------------------------------------------------- numbers
Re(c) == c[1]
Im(c) == c[2]

\* sqrt((re*re) + (im*im)), squared
MagSq(c) == (Re(c) * Re(c)) + (Im(c) * Im(c))

\* (int) of a magnitude whose square is s: the integer square root
TruncToInt(s) == CHOOSE r \in 0..s : r * r <= s /\ (r + 1) * (r + 1) > s

\* atan2(im, re) * (180/PI), on the axes and the diagonals
Atan2Deg(im, re) ==
  CASE im = 0 /\ re >= 0 -> 0
    [] im = 0 /\ re < 0 -> 180
    [] re = 0 /\ im > 0 -> 90
    [] re = 0 /\ im < 0 -> -90
    [] re > 0 /\ im = re -> 45
    [] re > 0 /\ im = -re -> -45
    [] re < 0 /\ im = -re -> 135
    [] re < 0 /\ im = re -> -135

\* A double: a fraction, or what IEEE-754 gives for a division by zero.
Finite(num, den) == [kind |-> "finite", num |-> num, den |-> den]
Zero == Finite(0, 1)
Inf(sign) == [kind |-> "inf", num |-> sign, den |-> 0]
NaN == [kind |-> "nan", num |-> 0, den |-> 0]

\* i * (sampleRate/sampsPerChan)
BinFreq(k, nn) == Finite(k * sampleRate, nn)

\* (d/360) * (1/f): 1/f is +inf at f = 0, and x * inf is inf with the sign of
\* x, or nan at x = 0.
SkewSec(d, f) ==
  IF f.num = 0
    THEN (IF d > 0 THEN Inf(1) ELSE IF d < 0 THEN Inf(-1) ELSE NaN)
    ELSE Finite(d * f.den, 360 * f.num)

\* The largest int32, 2^31 - 1.
Int32Max == (32768 * 65535) + 32767

\* a += b on int32, b > 0: the values the total can have afterwards.  An
\* overflowing signed addition is undefined; the two's-complement add the
\* compilers emit wraps around.
AddInt32(a, b) ==
  IF a <= Int32Max - b
    THEN {a + b}
    ELSE {((((a - Int32Max) - 1) + b) - Int32Max) - 1}

\* ------------------------------------------------------------- DAQmx tasks
\* DAQmxStopTask on a task in state t.
StopTask(t) == IF t = "running" THEN "stopped" ELSE t

ClearTask_Keep(t) == t

\* DAQmxClearTask on a task in state t.
ClearTask(t) == "cleared"

\* A stop or clear call through handle variable t, read now, names a task
\* that has been cleared already.
StaleOn(t) == handles[t] # 0 /\ tasks[t] = "cleared"

\* The same for a call through a callback's parameter taskHandle, which keeps
\* the value the driver passed.
StaleParam(t) == tasks[t] = "cleared"

\* fprintf to the files main opened: whether a row has gone to a closed file.
LateAfterWrite == lateWrite \/ files = "closed"

\* ------------------------------------------ NormalizePhaseAngleDifference
NormalizePhaseAngleDifference_Ge(ph) ==
  LET p1 == IF ph >= 270 THEN ph - 360 ELSE ph
  IN  IF p1 < -90 THEN p1 + 360 ELSE p1

NormalizePhaseAngleDifference_NoAdd(ph) ==
  IF ph > 270 THEN ph - 360 ELSE ph

\* ChnlExpSync.c
NormalizePhaseAngleDifference(ph) ==
  LET p1 == IF ph > 270 THEN ph - 360 ELSE ph
  IN  IF p1 < -90 THEN p1 + 360 ELSE p1

\* RefClkSync.c
RefClk_NormalizePhaseAngleDifference(ph) ==
  LET p1 == IF ph > 270 THEN ph - 360 ELSE ph
  IN  IF p1 < -90 THEN p1 + 360 ELSE p1

\* ------------------------------------------------------------ DFT, common
nc_Ceil(nn) == ((nn + 1) \div 2) + 1

\* int nc = (n/2)+1
nc(nn) == (nn \div 2) + 1

\* Values of a bin that is not computed from the samples.
RealBins == {<<0, 0>>, <<MaxAmp - 1, 0>>, <<MaxAmp, 0>>, <<-MaxAmp, 0>>}
ComplexBins == {<<0, MaxAmp - 1>>, <<-(MaxAmp - 1), -(MaxAmp - 1)>>,
                <<0, -MaxAmp>>}
BinValues == RealBins \cup ComplexBins

\* The one-sided spectra of n real samples: bin 0 is real, and so is bin n/2
\* of an even n.
OneSidedSpectra(nn) ==
  {s \in [0..(nc(nn) - 1) -> BinValues] :
     /\ s[0] \in RealBins
     /\ (nn % 2 = 0 => s[nn \div 2] \in RealBins)}

RECURSIVE SumTo(_, _)
SumTo(x, k) == IF k < 0 THEN 0 ELSE x[k] + SumTo(x, k - 1)

RECURSIVE AltSumTo(_, _)
AltSumTo(x, k) ==
  IF k < 0 THEN 0
  ELSE (IF k % 2 = 0 THEN x[k] ELSE -x[k]) + AltSumTo(x, k - 1)

\* fftw_execute of a plan fftw_plan_dft_r2c_1d(n, in, out): the spectra it
\* can leave in out for the input x.
FFTOutcomes(x, nn) ==
  LET bins == 0..(nc(nn) - 1)
      free == {k \in bins : k # 0 /\ 2 * k # nn}
      silent == \A t \in 0..(nn - 1) : x[t] = 0
  IN  {[k \in bins |->
          IF k = 0 THEN <<SumTo(x, nn - 1), 0>>
          ELSE IF 2 * k = nn THEN <<AltSumTo(x, nn - 1), 0>>
          ELSE IF silent THEN <<0, 0>>
          ELSE f[k]] : f \in [free -> BinValues]}

NoSpectrum == <<>>

\* ------------------------------------------------- ChnlExpSync: the split
Samples == {0, maxVal}

DemuxStep_SameSlot(total, dsa, mio, ii, jj) ==
  [dsa |-> [dsa EXCEPT ![ii] = total[jj]],
   mio |-> [mio EXCEPT ![ii] = total[jj]],
   j |-> jj + 2]

\* dsaData[i] = totalData[j]; mioData[i] = totalData[j+1]; j = j + 2;
DemuxStep(total, dsa, mio, ii, jj) ==
  [dsa |-> [dsa EXCEPT ![ii] = total[jj]],
   mio |-> [mio EXCEPT ![ii] = total[jj + 1]],
   j |-> jj + 2]

ZeroBuffer(len) == [x \in 0..(len - 1) |-> 0]

\* The totals EveryNCallback can have added up when a run of MaxCallbacks
\* calls begins: none yet, or the largest multiple of n an int32 holds.
TotalStarts(nn) == {0, (Int32Max \div nn) * nn}

\* The rows of the CSV files and the totals, as a callback finds them.
Snapshot ==
  [dftRows |-> dftRows, voltageRows |-> voltageRows,
   dsaTotalRead |-> dsaTotalRead, mioTotalRead |-> mioTotalRead]

\* The every-N-samples event fires on the running task, EveryNCallback is
\* called and DAQmxReadAnalogF64 succeeds: 2n interleaved samples, and the
\* number of samples per channel the driver reports.
ReadChunk ==
  /\ pc = "idle"
  /\ prog = "ChnlExpSync"
  /\ mainpc # "done"
  /\ tasks["taskHandle"] = "running"
  /\ chunks < MaxCallbacks
  /\ totalData' \in [0..(2 * n - 1) -> Samples]
  /\ samplesReadPerChan' \in 0..n
  /\ error' = 0
  /\ chunks' = chunks + 1
  /\ passes' = 0
  /\ prints' = 0
  /\ atEntry' = Snapshot
  /\ pc' = "counts"
  /\ UNCHANGED <<n, dsaData, mioData, i, j, dftVars, outVars, rcVars, normVars,
                 tasks, progVars, dsaRead, mioRead, totalVars, logVars, nullUsed,
                 staleCall, fileVars>>

\* EveryNCallback is called and DAQmxReadAnalogF64 fails: goto Error.
ReadFail ==
  /\ pc = "idle"
  /\ prog = "ChnlExpSync"
  /\ mainpc # "done"
  /\ tasks["taskHandle"] = "running"
  /\ chunks < MaxCallbacks
  /\ error' = -1
  /\ chunks' = chunks + 1
  /\ passes' = 0
  /\ prints' = 0
  /\ atEntry' = Snapshot
  /\ pc' = "err_stop"
  /\ UNCHANGED <<chunkVars, dftVars, outVars, rcVars, normVars, tasks, progVars, readVars,
                 totalVars, logVars, nullUsed,
                 staleCall, fileVars>>

\* The value of (samplesReadPerChan = sampsPerChan), an assignment: what
\* samplesReadPerChan holds afterwards.
AssignedCount(reported, requested) == requested

\* if (samplesReadPerChan = sampsPerChan) { dsaRead = ...; mioRead = ...; }
\* and the initialisation of the split loop.
AssignCounts ==
  /\ pc = "counts"
  /\ LET v == AssignedCount(samplesReadPerChan, n)
     IN  /\ samplesReadPerChan' = v
         /\ IF v # 0
              THEN dsaRead' = v /\ mioRead' = v
              ELSE UNCHANGED <<dsaRead, mioRead>>
  /\ i' = 0
  /\ j' = 0
  /\ pc' = "split"
  /\ UNCHANGED <<n, totalData, dsaData, mioData, dftVars, outVars, rcVars,
                 normVars, tasks, progVars, error, totalVars, logVars, countVars, nullUsed,
                 staleCall, fileVars>>

\* One turn of the loop that splits totalData.
SplitStep ==
  /\ pc = "split"
  /\ i < n
  /\ LET r == DemuxStep(totalData, dsaData, mioData, i, j)
     IN  /\ dsaData' = r.dsa
         /\ mioData' = r.mio
         /\ j' = r.j
  /\ i' = i + 1
  /\ UNCHANGED <<pc, n, totalData, dftVars, outVars, rcVars, normVars, cbVars, progVars,
                 staleCall, fileVars>>

\* The loop ends, DFT is called: buffers allocated, StoreData, plans, execute,
\* and the header line of the DFT file.
CallDFT ==
  /\ pc = "split"
  /\ i >= n
  /\ dsaOutput' \in FFTOutcomes(dsaData, n)
  /\ mioOutput' \in FFTOutcomes(mioData, n)
  /\ maxMagnitudeIndex' = 0
  /\ maxMagnitude' = 0
  /\ dft_i' = 0
  /\ passes' = passes + 1
  /\ dftRows' = dftRows + 1
  /\ lateWrite' = LateAfterWrite
  /\ pc' = "scan"
  /\ UNCHANGED <<chunkVars, outVars, rcVars, normVars, tasks, progVars, error, readVars,
                 totalVars, voltageRows, chunks, prints, atEntry, nullUsed,
                 staleCall, files>>

\* DFT is called and an fftw_malloc or fftw_plan_dft_r2c_1d returns NULL.  The
\* result is not tested: StoreData writes through the buffer and fftw_execute
\* runs the plan.  That is undefined: the process dies there, or goes on.
CallDFTNull ==
  /\ pc = "split"
  /\ i >= n
  /\ nullUsed' = TRUE
  /\ passes' = passes + 1
  /\ \/ /\ pc' = "crashed"
        /\ UNCHANGED <<dftVars, dftRows, lateWrite>>
     \/ /\ dsaOutput' \in FFTOutcomes(dsaData, n)
        /\ mioOutput' \in FFTOutcomes(mioData, n)
        /\ maxMagnitudeIndex' = 0
        /\ maxMagnitude' = 0
        /\ dft_i' = 0
        /\ dftRows' = dftRows + 1
        /\ lateWrite' = LateAfterWrite
        /\ pc' = "scan"
  /\ UNCHANGED <<chunkVars, outVars, rcVars, normVars, tasks, progVars, error, readVars,
                 totalVars, voltageRows, chunks, prints, atEntry,
                 staleCall, files>>

\* ------------------------------------------- ChnlExpSync: DFT, after execute
Accepts_Strict(dsaMagSq, mioMagSq, best) ==
  dsaMagSq > best * best /\ mioMagSq > best * best

\* dsaMagnitude >= maxMagnitude && mioMagnitude >= maxMagnitude
Accepts(dsaMagSq, mioMagSq, best) ==
  dsaMagSq >= best * best /\ mioMagSq >= best * best

ScanLimit_Short(nn) == nc(nn) - 1

\* for (int i = 0; i < nc; i++)
ScanLimit(nn) == nc(nn)

\* One turn of the loop over the bins.
ScanStep ==
  /\ pc = "scan"
  /\ dft_i < ScanLimit(n)
  /\ LET dsaMagSq == MagSq(dsaOutput[dft_i])
         mioMagSq == MagSq(mioOutput[dft_i])
     IN  IF Accepts(dsaMagSq, mioMagSq, maxMagnitude)
           THEN /\ maxMagnitude' = TruncToInt(dsaMagSq)
                /\ maxMagnitudeIndex' = dft_i
           ELSE UNCHANGED <<maxMagnitude, maxMagnitudeIndex>>
  /\ dft_i' = dft_i + 1
  /\ dftRows' = dftRows + 1
  /\ lateWrite' = LateAfterWrite
  /\ UNCHANGED <<pc, chunkVars, dsaOutput, mioOutput, outVars, rcVars, normVars,
                 tasks, progVars, error, readVars, totalVars, voltageRows, countVars,
                 nullUsed,
                 staleCall, files>>

ChnlExp_phaseSkewSec_Normalized(dsaPhase, mioPhase, maxFreq) ==
  SkewSec(NormalizePhaseAngleDifference(dsaPhase - mioPhase), maxFreq)

\* double phaseSkewSec = ((dsaPhase-mioPhase)/360) * (1/maxFreq);
ChnlExp_phaseSkewSec(dsaPhase, mioPhase, maxFreq) ==
  SkewSec(dsaPhase - mioPhase, maxFreq)

\* The loop ends: the values at maxMagnitudeIndex give the outputs.
Estimate ==
  /\ pc = "scan"
  /\ dft_i >= ScanLimit(n)
  /\ LET dsaMax == dsaOutput[maxMagnitudeIndex]
         mioMax == mioOutput[maxMagnitudeIndex]
         maxFreq == BinFreq(maxMagnitudeIndex, n)
         dsaPhase == Atan2Deg(Im(dsaMax), Re(dsaMax))
         mioPhase == Atan2Deg(Im(mioMax), Re(mioMax))
     IN  /\ measuredPhaseSkewDeg' = NormalizePhaseAngleDifference(dsaPhase - mioPhase)
         /\ measuredPhaseSkewSec' = ChnlExp_phaseSkewSec(dsaPhase, mioPhase, maxFreq)
         /\ measuredFreq' = maxFreq
  /\ pc' = "estimated"
  /\ UNCHANGED <<chunkVars, dftVars, rcVars, normVars, cbVars, progVars,
                 staleCall, fileVars>>

\* After DFT: the voltage rows (a header and n lines), the totals and the
\* console line.
Finish ==
  /\ pc = "estimated"
  /\ voltageRows' = voltageRows + 1 + n
  /\ lateWrite' = LateAfterWrite
  /\ IF dsaRead > 0
       THEN dsaTotalRead' \in AddInt32(dsaTotalRead, dsaRead)
       ELSE UNCHANGED dsaTotalRead
  /\ IF mioRead > 0
       THEN mioTotalRead' \in AddInt32(mioTotalRead, mioRead)
       ELSE UNCHANGED mioTotalRead
  /\ prints' = prints + 1
  /\ pc' = "finished"
  /\ UNCHANGED <<chunkVars, dftVars, outVars, rcVars, normVars, tasks, progVars, error,
                 readVars, dftRows, chunks, passes, atEntry, nullUsed,
                 staleCall, files>>

\* Error: with error < 0, if( taskHandle ) DAQmxStopTask(taskHandle).  The
\* taskHandle here is the callback's parameter, the task that raised the event.
ErrStop ==
  /\ pc = "err_stop"
  /\ tasks' = [tasks EXCEPT !["taskHandle"] = StopTask(@)]
  /\ staleCall' = (staleCall \/ StaleParam("taskHandle"))
  /\ pc' = "err_clear"
  /\ UNCHANGED <<chunkVars, dftVars, outVars, rcVars, normVars, error, readVars,
                 totalVars, logVars, countVars, nullUsed, progVars,
                 fileVars>>

\* DAQmxClearTask(taskHandle), and the error line.
ErrClear ==
  /\ pc = "err_clear"
  /\ tasks' = [tasks EXCEPT !["taskHandle"] = ClearTask(@)]
  /\ staleCall' = (staleCall \/ StaleParam("taskHandle"))
  /\ pc' = "failed"
  /\ UNCHANGED <<chunkVars, dftVars, outVars, rcVars, normVars, error, readVars,
                 totalVars, logVars, countVars, nullUsed, progVars,
                 fileVars>>

\* EveryNCallback returns; its locals end with it.  (error and the counts of
\* the call are kept until the next call begins.)
Return ==
  /\ pc \in {"finished", "failed"}
  /\ pc' = "idle"
  /\ totalData' = ZeroBuffer(2 * n)
  /\ dsaData' = ZeroBuffer(n)
  /\ mioData' = ZeroBuffer(n)
  /\ i' = 0
  /\ j' = 0
  /\ dsaOutput' = NoSpectrum
  /\ mioOutput' = NoSpectrum
  /\ dft_i' = 0
  /\ maxMagnitude' = 0
  /\ maxMagnitudeIndex' = 0
  /\ measuredFreq' = Zero
  /\ measuredPhaseSkewDeg' = 0
  /\ measuredPhaseSkewSec' = Zero
  /\ samplesReadPerChan' = 0
  /\ dsaRead' = 0
  /\ mioRead' = 0
  /\ UNCHANGED <<n, rcVars, normVars, tasks, progVars, error, totalVars, logVars,
                 countVars, nullUsed,
                 staleCall, fileVars>>

\* --------------------------------------------- RefClkSync: DFT, after execute
RefClk_PassesFloor_Either(dsaMagSq, mioMagSq) ==
  \/ dsaMagSq >= MagnitudeFloor * MagnitudeFloor
  \/ mioMagSq >= MagnitudeFloor * MagnitudeFloor

\* dsaMagnitude >= 5 && mioMagnitude >= 5
RefClk_PassesFloor(dsaMagSq, mioMagSq) ==
  /\ dsaMagSq >= MagnitudeFloor * MagnitudeFloor
  /\ mioMagSq >= MagnitudeFloor * MagnitudeFloor

\* double phaseSkewSec = ((dsaPhase-mioPhase)/360) * (1/freq);
RefClk_phaseSkewSec(dsaPhase, mioPhase, freq) ==
  SkewSec(dsaPhase - mioPhase, freq)

\* One turn of the loop over the bins.
RefClk_LoopStep ==
  /\ rc_pc = "loop"
  /\ rc_i < nc(n)
  /\ LET dsaBin == dsaOutput[rc_i]
         mioBin == mioOutput[rc_i]
         freq == BinFreq(rc_i, n)
         dsaPhase == Atan2Deg(Im(dsaBin), Re(dsaBin))
         mioPhase == Atan2Deg(Im(mioBin), Re(mioBin))
         phaseSkewDeg == RefClk_NormalizePhaseAngleDifference(dsaPhase - mioPhase)
         phaseSkewSec == RefClk_phaseSkewSec(dsaPhase, mioPhase, freq)
     IN  IF RefClk_PassesFloor(MagSq(dsaBin), MagSq(mioBin))
           THEN /\ rc_measuredPhaseSkewDeg' = phaseSkewDeg
                /\ rc_measuredPhaseSkewSec' = phaseSkewSec
                /\ rc_measuredFreq' = freq
           ELSE UNCHANGED <<rc_measuredPhaseSkewDeg, rc_measuredPhaseSkewSec,
                            rc_measuredFreq>>
  /\ rc_i' = rc_i + 1
  /\ UNCHANGED <<pc, chunkVars, dftVars, outVars, rc_pc, normVars, cbVars, progVars,
                 staleCall, fileVars>>

\* The loop ends and DFT returns.
RefClk_Return ==
  /\ rc_pc = "loop"
  /\ rc_i >= nc(n)
  /\ rc_pc' = "returned"
  /\ UNCHANGED <<pc, chunkVars, dftVars, outVars, rc_i, rc_measuredFreq,
                 rc_measuredPhaseSkewDeg, rc_measuredPhaseSkewSec, normVars,
                 cbVars, progVars,
                 staleCall, fileVars>>

\* ------------------------------------- a call of the normalization function
NormCall ==
  /\ npc = "call"
  /\ normalized' = NormalizePhaseAngleDifference(phase)
  /\ rc_normalized' = RefClk_NormalizePhaseAngleDifference(phase)
  /\ npc' = "returned"
  /\ UNCHANGED <<pc, chunkVars, dftVars, outVars, rcVars, phase, cbVars, progVars,
                 staleCall, fileVars>>

\* ---------------------------------------------------------- specifications
OutputsZero ==
  /\ measuredFreq = Zero
  /\ measuredPhaseSkewDeg = 0
  /\ measuredPhaseSkewSec = Zero

RefClkOff ==
  /\ rc_pc = "off"
  /\ rc_i = 0
  /\ rc_measuredFreq = Zero
  /\ rc_measuredPhaseSkewDeg = 0
  /\ rc_measuredPhaseSkewSec = Zero

NormOff ==
  /\ npc = "off"
  /\ phase = 0
  /\ normalized = 0
  /\ rc_normalized = 0

\* The names of the task handles of a program, in the order main creates the
\* tasks and cleans them up.
TaskOrder(p) ==
  IF p = "ChnlExpSync"
    THEN <<"taskHandle">>
    ELSE <<"DSATaskHandle", "MIOTaskHandle">>

TaskNames(p) == {TaskOrder(p)[k] : k \in 1..Len(TaskOrder(p))}

\* ChnlExpSync after DAQmxStartTask, main waiting in getchar.
ChnlExpAcquiring ==
  /\ prog = "ChnlExpSync"
  /\ mainpc = "getchar"
  /\ m_error = 0
  /\ m_k = 1
  /\ handles = [t \in TaskNames(prog) |-> 1]
  /\ tasks = [t \in TaskNames(prog) |-> "running"]
  /\ started = TaskOrder(prog)
  /\ mainCalls = <<>>
  /\ status = 0
  /\ cb_k = 1
  /\ staleCall = FALSE
  /\ files = "open"
  /\ lateWrite = FALSE

\* The locals, counts and files of EveryNCallback before its first call.
CallbackFresh ==
  /\ error = 0
  /\ samplesReadPerChan = 0
  /\ dsaRead = 0
  /\ mioRead = 0
  /\ dftRows = 0
  /\ voltageRows = 0
  /\ chunks = 0
  /\ passes = 0
  /\ prints = 0
  /\ atEntry = Snapshot
  /\ nullUsed = FALSE

\* ChnlExpSync: the task runs and EveryNCallback is about to be called.
Init ==
  /\ n \in 2..MaxChunk
  /\ pc = "idle"
  /\ totalData = ZeroBuffer(2 * n)
  /\ dsaData = ZeroBuffer(n)
  /\ mioData = ZeroBuffer(n)
  /\ i = 0
  /\ j = 0
  /\ dsaOutput = NoSpectrum
  /\ mioOutput = NoSpectrum
  /\ dft_i = 0
  /\ maxMagnitude = 0
  /\ maxMagnitudeIndex = 0
  /\ OutputsZero
  /\ RefClkOff
  /\ NormOff
  /\ ChnlExpAcquiring
  /\ dsaTotalRead \in TotalStarts(n)
  /\ mioTotalRead = dsaTotalRead
  /\ CallbackFresh

Next ==
  \/ ReadChunk
  \/ ReadFail
  \/ AssignCounts
  \/ SplitStep
  \/ CallDFT
  \/ CallDFTNull
  \/ ScanStep
  \/ Estimate
  \/ Finish
  \/ ErrStop
  \/ ErrClear
  \/ Return

Spec == Init /\ [][Next]_vars

\* DFT of both programs right after fftw_execute, on the same pair of spectra.
InitDFT ==
  /\ n \in 2..MaxN
  /\ pc = "scan"
  /\ totalData = ZeroBuffer(2 * n)
  /\ dsaData = ZeroBuffer(n)
  /\ mioData = ZeroBuffer(n)
  /\ i = 0
  /\ j = 0
  /\ dsaOutput \in OneSidedSpectra(n)
  /\ mioOutput \in OneSidedSpectra(n)
  /\ dft_i = 0
  /\ maxMagnitude = 0
  /\ maxMagnitudeIndex = 0
  /\ OutputsZero
  /\ rc_pc = "loop"
  /\ rc_i = 0
  /\ rc_measuredFreq = Zero
  /\ rc_measuredPhaseSkewDeg = 0
  /\ rc_measuredPhaseSkewSec = Zero
  /\ NormOff
  /\ ChnlExpAcquiring
  /\ dsaTotalRead = 0
  /\ mioTotalRead = 0
  /\ CallbackFresh

NextDFT == ScanStep \/ Estimate \/ RefClk_LoopStep \/ RefClk_Return

SpecDFT == InitDFT /\ [][NextDFT]_vars

\* NormalizePhaseAngleDifference, both copies, on a raw phase difference.
InitNorm ==
  /\ n = 2
  /\ pc = "off"
  /\ totalData = ZeroBuffer(2 * n)
  /\ dsaData = ZeroBuffer(n)
  /\ mioData = ZeroBuffer(n)
  /\ i = 0
  /\ j = 0
  /\ dsaOutput = NoSpectrum
  /\ mioOutput = NoSpectrum
  /\ dft_i = 0
  /\ maxMagnitude = 0
  /\ maxMagnitudeIndex = 0
  /\ OutputsZero
  /\ RefClkOff
  /\ npc = "call"
  /\ phase \in (-PhaseBound)..PhaseBound
  /\ normalized = 0
  /\ rc_normalized = 0
  /\ ChnlExpAcquiring
  /\ dsaTotalRead = 0
  /\ mioTotalRead = 0
  /\ CallbackFresh

NextNorm == NormCall

SpecNorm == InitNorm /\ [][NextNorm]_vars

\* ------------------------------------------------------------------- main
\* The state of the callbacks, which main does not touch.
callbackSide ==
  <<pc, chunkVars, dftVars, outVars, rcVars, normVars, error, readVars,
    totalVars, logVars, countVars, nullUsed, status, cb_k>>

\* The state of main, which the callbacks do not touch (the handles apart).
mainSide == <<prog, mainpc, m_error, m_k, started, mainCalls>>

Programs == {"ChnlExpSync", "RefClkSync", "Sync_4499_6259"}

\* DAQmxStopTask(h) where h is the value of handle variable t now: a handle of
\* 0 names no task.
TasksAfterStop(t) ==
  IF handles[t] # 0 THEN [tasks EXCEPT ![t] = StopTask(@)] ELSE tasks

\* DAQmxClearTask(h) where h is the value of handle variable t now.
TasksAfterClear(t) ==
  IF handles[t] # 0 THEN [tasks EXCEPT ![t] = ClearTask(@)] ELSE tasks

StartOrder_MasterFirst(p) == TaskOrder(p)

\* The order of the DAQmxStartTask calls: the slave (MIO) is armed before the
\* master (DSA).
StartOrder(p) ==
  IF p = "ChnlExpSync"
    THEN <<"taskHandle">>
    ELSE <<"MIOTaskHandle", "DSATaskHandle">>

\* DAQmxErrChk on a failing call: error < 0 and goto Error.
MainFail ==
  /\ m_error' = -1
  /\ mainpc' = "cleanup"
  /\ m_k' = 1

\* DAQmxErrChk (DAQmxCreateTask("",&handle))
MainCreateTask ==
  /\ mainpc = "create"
  /\ LET t == TaskOrder(prog)[m_k]
     IN  \/ /\ handles' = [handles EXCEPT ![t] = 1]
            /\ tasks' = [tasks EXCEPT ![t] = "created"]
            /\ mainpc' = "config"
            /\ UNCHANGED <<m_error, m_k>>
         \/ /\ MainFail
            /\ UNCHANGED <<handles, tasks>>
  /\ UNCHANGED <<callbackSide, prog, started, mainCalls,
                 staleCall, fileVars>>

\* The channel and timing calls on the task just created.
MainConfig ==
  /\ mainpc = "config"
  /\ \/ /\ IF m_k < Len(TaskOrder(prog))
             THEN mainpc' = "create" /\ m_k' = m_k + 1
             ELSE mainpc' = "register" /\ m_k' = 1
        /\ UNCHANGED m_error
     \/ MainFail
  /\ UNCHANGED <<callbackSide, prog, handles, tasks, started, mainCalls,
                 staleCall, fileVars>>

\* The reference clock and trigger calls of the two-task programs, the two
\* fopen calls of ChnlExpSync, and the registration of EveryNCallback and
\* DoneCallback.
MainRegister ==
  /\ mainpc = "register"
  /\ files' = IF prog = "ChnlExpSync" THEN "open" ELSE files
  /\ \/ /\ mainpc' = "start"
        /\ m_k' = 1
        /\ UNCHANGED m_error
     \/ MainFail
  /\ UNCHANGED <<callbackSide, prog, handles, tasks, started, mainCalls,
                 staleCall, lateWrite>>

\* DAQmxErrChk (DAQmxStartTask(handle))
MainStart ==
  /\ mainpc = "start"
  /\ LET t == StartOrder(prog)[m_k]
     IN  \/ /\ tasks' = [tasks EXCEPT ![t] = "running"]
            /\ started' = Append(started, t)
            /\ IF m_k < Len(StartOrder(prog))
                 THEN m_k' = m_k + 1 /\ UNCHANGED mainpc
                 ELSE m_k' = 1 /\ mainpc' = "getchar"
            /\ UNCHANGED m_error
         \/ /\ MainFail
            /\ UNCHANGED <<tasks, started>>
  /\ UNCHANGED <<callbackSide, prog, handles, mainCalls,
                 staleCall, fileVars>>

\* getchar() returns: the operator pressed Enter.
MainEnter ==
  /\ mainpc = "getchar"
  /\ mainpc' = "cleanup"
  /\ m_k' = 1
  /\ UNCHANGED <<callbackSide, prog, m_error, handles, tasks, started,
                 mainCalls,
                 staleCall, fileVars>>

CleanupTests_Always(h) == TRUE

\* if( handle )
CleanupTests(h) == h # 0

\* Error: the test of the next handle, and the return of main after the last.
MainTest ==
  /\ mainpc = "cleanup"
  /\ IF m_k > Len(TaskOrder(prog))
       THEN mainpc' = "done" /\ UNCHANGED m_k
       ELSE IF CleanupTests(handles[TaskOrder(prog)[m_k]])
              THEN mainpc' = "stop" /\ UNCHANGED m_k
              ELSE m_k' = m_k + 1 /\ UNCHANGED mainpc
  /\ UNCHANGED <<callbackSide, prog, m_error, handles, tasks, started,
                 mainCalls,
                 staleCall, fileVars>>

\* DAQmxStopTask(handle)
MainStop ==
  /\ mainpc = "stop"
  /\ LET t == TaskOrder(prog)[m_k]
     IN  /\ tasks' = TasksAfterStop(t)
         /\ staleCall' = (staleCall \/ StaleOn(t))
         /\ mainCalls' = Append(mainCalls, <<"stop", t>>)
  /\ mainpc' = "clear"
  /\ UNCHANGED <<callbackSide, prog, m_error, m_k, handles, started,
                 fileVars>>

\* DAQmxClearTask(handle)
MainClear ==
  /\ mainpc = "clear"
  /\ LET t == TaskOrder(prog)[m_k]
     IN  /\ tasks' = TasksAfterClear(t)
         /\ staleCall' = (staleCall \/ StaleOn(t))
         /\ mainCalls' = Append(mainCalls, <<"clear", t>>)
  /\ mainpc' = "zero"
  /\ UNCHANGED <<callbackSide, prog, m_error, m_k, handles, started,
                 fileVars>>

\* handle = 0
MainZero ==
  /\ mainpc = "zero"
  /\ LET t == TaskOrder(prog)[m_k]
     IN  /\ handles' = [handles EXCEPT ![t] = 0]
         /\ mainCalls' = Append(mainCalls, <<"zero", t>>)
  /\ m_k' = m_k + 1
  /\ mainpc' = "cleanup"
  /\ UNCHANGED <<callbackSide, prog, m_error, tasks, started,
                 staleCall, fileVars>>

\* ------------------------- EveryNCallback of RefClkSync and Sync_4499_6259
\* The state EveryNCallback's control steps leave alone.
dataSide == <<chunkVars, dftVars, outVars, rcVars, normVars, nullUsed, status>>

ErrorPathTasks_MasterOnly(p) == <<"DSATaskHandle">>

\* The handles the error path of EveryNCallback goes through.
ErrorPathTasks(p) == <<"DSATaskHandle", "MIOTaskHandle">>

\* The every-N-samples event fires on the running DSA task, EveryNCallback is
\* called and reads the DSA task.
TT_ReadDSA ==
  /\ pc = "idle"
  /\ prog # "ChnlExpSync"
  /\ mainpc # "done"
  /\ tasks["DSATaskHandle"] = "running"
  /\ chunks < MaxCallbacks
  /\ chunks' = chunks + 1
  /\ passes' = 0
  /\ prints' = 0
  /\ atEntry' = Snapshot
  /\ \/ /\ dsaRead' \in 0..n
        /\ error' = 0
        /\ pc' = "tt_readMIO"
        /\ UNCHANGED cb_k
     \/ /\ error' = -1
        /\ pc' = "tt_err"
        /\ cb_k' = 1
        /\ UNCHANGED dsaRead
  /\ UNCHANGED <<dataSide, samplesReadPerChan, mioRead, totalVars, logVars,
                 tasks, progVars_NoCb,
                 staleCall, fileVars>>

\* The read of the MIO task.
TT_ReadMIO ==
  /\ pc = "tt_readMIO"
  /\ \/ /\ tasks["MIOTaskHandle"] = "running"
        /\ handles["MIOTaskHandle"] # 0
        /\ mioRead' \in 0..n
        /\ pc' = IF prog = "RefClkSync" THEN "tt_dft" ELSE "tt_log"
        /\ UNCHANGED <<error, cb_k>>
     \/ /\ error' = -1
        /\ pc' = "tt_err"
        /\ cb_k' = 1
        /\ UNCHANGED mioRead
  /\ UNCHANGED <<dataSide, samplesReadPerChan, dsaRead, totalVars, logVars,
                 countVars, tasks, progVars_NoCb,
                 staleCall, fileVars>>

TT_DFT_Skipped ==
  /\ pc = "tt_dft"
  /\ pc' = "tt_log"
  /\ UNCHANGED <<dataSide, error, readVars, totalVars, logVars, countVars,
                 tasks, progVars,
                 staleCall, fileVars>>

\* RefClkSync: the call of DFT, which writes a header and a row for each bin.
TT_DFT ==
  /\ pc = "tt_dft"
  /\ passes' = passes + 1
  /\ dftRows' = dftRows + 1 + nc(n)
  /\ pc' = "tt_log"
  /\ UNCHANGED <<dataSide, error, readVars, totalVars, voltageRows, chunks,
                 prints, atEntry, tasks, progVars,
                 staleCall, fileVars>>

\* The voltage rows (RefClkSync writes a header each time), the totals and the
\* console line.
TT_Finish ==
  /\ pc = "tt_log"
  /\ voltageRows' = voltageRows + (IF prog = "RefClkSync" THEN 1 ELSE 0) + n
  /\ IF dsaRead > 0
       THEN dsaTotalRead' \in AddInt32(dsaTotalRead, dsaRead)
       ELSE UNCHANGED dsaTotalRead
  /\ IF mioRead > 0
       THEN mioTotalRead' \in AddInt32(mioTotalRead, mioRead)
       ELSE UNCHANGED mioTotalRead
  /\ prints' = prints + 1
  /\ pc' = "finished"
  /\ UNCHANGED <<dataSide, error, readVars, dftRows, chunks, passes, atEntry,
                 tasks, progVars,
                 staleCall, fileVars>>

\* Error: the test of the next handle, and the error line after the last.
TT_ErrTest ==
  /\ pc = "tt_err"
  /\ IF cb_k > Len(ErrorPathTasks(prog))
       THEN pc' = "failed" /\ UNCHANGED cb_k
       ELSE IF handles[ErrorPathTasks(prog)[cb_k]] # 0
              THEN pc' = "tt_stop" /\ UNCHANGED cb_k
              ELSE cb_k' = cb_k + 1 /\ UNCHANGED pc
  /\ UNCHANGED <<dataSide, error, readVars, totalVars, logVars, countVars,
                 tasks, progVars_NoCb,
                 staleCall, fileVars>>

\* DAQmxStopTask(handle)
TT_ErrStop ==
  /\ pc = "tt_stop"
  /\ tasks' = TasksAfterStop(ErrorPathTasks(prog)[cb_k])
  /\ staleCall' = (staleCall \/ StaleOn(ErrorPathTasks(prog)[cb_k]))
  /\ pc' = "tt_clear"
  /\ UNCHANGED <<dataSide, error, readVars, totalVars, logVars, countVars,
                 progVars,
                 fileVars>>

\* DAQmxClearTask(handle)
TT_ErrClear ==
  /\ pc = "tt_clear"
  /\ tasks' = TasksAfterClear(ErrorPathTasks(prog)[cb_k])
  /\ staleCall' = (staleCall \/ StaleOn(ErrorPathTasks(prog)[cb_k]))
  /\ cb_k' = cb_k + 1
  /\ pc' = "tt_err"
  /\ UNCHANGED <<dataSide, error, readVars, totalVars, logVars, countVars,
                 progVars_NoCb,
                 fileVars>>

\* ------------------------------------------------------------ DoneCallback
\* The handle variable naming the task the callbacks are registered on.
RegisteredOn(p) == IF p = "ChnlExpSync" THEN "taskHandle" ELSE "DSATaskHandle"

\* The handle the if of DoneCallback's error path tests: the parameter
\* taskHandle in ChnlExpSync, the global MIOTaskHandle in the others.
DoneTarget(p) == IF p = "ChnlExpSync" THEN "taskHandle" ELSE "MIOTaskHandle"

\* What DoneCallback's steps leave alone.
doneSide ==
  <<chunkVars, dftVars, outVars, rcVars, normVars, error, readVars, totalVars,
    logVars, countVars, nullUsed, cb_k>>

\* The task ends by itself and the done event calls DoneCallback.
DoneEvent ==
  /\ pc = "idle"
  /\ mainpc # "done"
  /\ tasks[RegisteredOn(prog)] = "running"
  /\ status' \in {0, -1}
  /\ tasks' = [tasks EXCEPT ![RegisteredOn(prog)] = "stopped"]
  /\ pc' = "done_check"
  /\ UNCHANGED <<doneSide, mainSide, handles,
                 staleCall, fileVars>>

\* DAQmxErrChk (status), and without an error the two fclose calls of
\* ChnlExpSync and the return.
Done_Check ==
  /\ pc = "done_check"
  /\ files' = IF prog = "ChnlExpSync" /\ status >= 0 THEN "closed" ELSE files
  /\ pc' = IF status < 0 THEN "done_clear" ELSE "done_return"
  /\ UNCHANGED <<doneSide, status, tasks, mainSide, handles,
                 staleCall, lateWrite>>

\* DAQmxClearTask(taskHandle), on the parameter.
Done_Clear ==
  /\ pc = "done_clear"
  /\ tasks' = [tasks EXCEPT ![RegisteredOn(prog)] = ClearTask(@)]
  /\ staleCall' = (staleCall \/ StaleParam(RegisteredOn(prog)))
  /\ pc' = "done_test"
  /\ UNCHANGED <<doneSide, status, mainSide, handles,
                 fileVars>>

\* if( taskHandle ) on the parameter, if( MIOTaskHandle ) on the global.
Done_Test ==
  /\ pc = "done_test"
  /\ pc' = IF prog = "ChnlExpSync" \/ handles[DoneTarget(prog)] # 0
             THEN "done_stop"
             ELSE "done_return"
  /\ UNCHANGED <<doneSide, status, tasks, mainSide, handles,
                 staleCall, fileVars>>

\* DAQmxStopTask on it.
Done_Stop ==
  /\ pc = "done_stop"
  /\ tasks' = IF prog = "ChnlExpSync"
                THEN [tasks EXCEPT ![DoneTarget(prog)] = StopTask(@)]
                ELSE TasksAfterStop(DoneTarget(prog))
  /\ staleCall' = (\/ staleCall
                   \/ IF prog = "ChnlExpSync"
                        THEN StaleParam(DoneTarget(prog))
                        ELSE StaleOn(DoneTarget(prog)))
  /\ pc' = "done_clear2"
  /\ UNCHANGED <<doneSide, status, mainSide, handles,
                 fileVars>>

\* DAQmxClearTask on it.
Done_Clear2 ==
  /\ pc = "done_clear2"
  /\ tasks' = IF prog = "ChnlExpSync"
                THEN [tasks EXCEPT ![DoneTarget(prog)] = ClearTask(@)]
                ELSE TasksAfterClear(DoneTarget(prog))
  /\ staleCall' = (\/ staleCall
                   \/ IF prog = "ChnlExpSync"
                        THEN StaleParam(DoneTarget(prog))
                        ELSE StaleOn(DoneTarget(prog)))
  /\ pc' = "done_zero"
  /\ UNCHANGED <<doneSide, status, mainSide, handles,
                 fileVars>>

\* taskHandle = 0 on the parameter (the global keeps its value),
\* MIOTaskHandle = 0 on the global.
Done_Zero ==
  /\ pc = "done_zero"
  /\ handles' = IF prog = "ChnlExpSync"
                  THEN handles
                  ELSE [handles EXCEPT ![DoneTarget(prog)] = 0]
  /\ pc' = "done_return"
  /\ UNCHANGED <<doneSide, status, tasks, mainSide,
                 staleCall, fileVars>>

\* return 0
Done_Return ==
  /\ pc = "done_return"
  /\ pc' = "idle"
  /\ UNCHANGED <<doneSide, status, tasks, mainSide, handles,
                 staleCall, fileVars>>

\* ---------------------------------------------------- the whole programs
\* One of the three programs at the start of main.
InitProg ==
  /\ prog \in Programs
  /\ mainpc = "create"
  /\ m_error = 0
  /\ m_k = 1
  /\ handles = [t \in TaskNames(prog) |-> 0]
  /\ tasks = [t \in TaskNames(prog) |-> "none"]
  /\ started = <<>>
  /\ mainCalls = <<>>
  /\ status = 0
  /\ cb_k = 1
  /\ staleCall = FALSE
  /\ files = "unopened"
  /\ lateWrite = FALSE
  /\ n = 2
  /\ pc = "idle"
  /\ totalData = ZeroBuffer(2 * n)
  /\ dsaData = ZeroBuffer(n)
  /\ mioData = ZeroBuffer(n)
  /\ i = 0
  /\ j = 0
  /\ dsaOutput = NoSpectrum
  /\ mioOutput = NoSpectrum
  /\ dft_i = 0
  /\ maxMagnitude = 0
  /\ maxMagnitudeIndex = 0
  /\ OutputsZero
  /\ RefClkOff
  /\ NormOff
  /\ dsaTotalRead = 0
  /\ mioTotalRead = 0
  /\ CallbackFresh

NextProg ==
  \/ MainCreateTask
  \/ MainConfig
  \/ MainRegister
  \/ MainStart
  \/ MainEnter
  \/ MainTest
  \/ MainStop
  \/ MainClear
  \/ MainZero
  \/ ReadChunk
  \/ ReadFail
  \/ AssignCounts
  \/ SplitStep
  \/ CallDFT
  \/ CallDFTNull
  \/ ScanStep
  \/ Estimate
  \/ Finish
  \/ ErrStop
  \/ ErrClear
  \/ Return
  \/ TT_ReadDSA
  \/ TT_ReadMIO
  \/ TT_DFT
  \/ TT_Finish
  \/ TT_ErrTest
  \/ TT_ErrStop
  \/ TT_ErrClear
  \/ DoneEvent
  \/ Done_Check
  \/ Done_Clear
  \/ Done_Test
  \/ Done_Stop
  \/ Done_Clear2
  \/ Done_Zero
  \/ Done_Return

SpecProg == InitProg /\ [][NextProg]_vars

\* ================================================================== claims
Min(a, b) == IF a <= b THEN a ELSE b

\* The bins of the spectra being scanned.
Bins == DOMAIN dsaOutput

\* The scan of ChnlExpSync's DFT is over and the outputs are written.
ScanDone == pc = "estimated"

\* Bins lo < hi tie at the maximal magnitude: both channels have the same
\* magnitude m at lo and at hi, no bin of either channel exceeds m, and no
\* bin after hi has both magnitudes at least (int)m, the running best then.
TieBins(lo, hi) ==
  LET m == MagSq(dsaOutput[lo])
      best == TruncToInt(m)
  IN  /\ lo < hi
      /\ MagSq(mioOutput[lo]) = m
      /\ MagSq(dsaOutput[hi]) = m
      /\ MagSq(mioOutput[hi]) = m
      /\ \A k \in Bins : MagSq(dsaOutput[k]) <= m /\ MagSq(mioOutput[k]) <= m
      /\ \A k \in Bins :
           k > hi => ~(/\ MagSq(dsaOutput[k]) >= best * best
                       /\ MagSq(mioOutput[k]) >= best * best)

\* C1 as stated: of two bins lo < hi that tie at the maximal magnitude, with
\* no later bin qualifying, the scan selects the lower index lo.
C1_LowerIndexWins ==
  ScanDone =>
    \A lo \in Bins : \A hi \in Bins :
      TieBins(lo, hi) => maxMagnitudeIndex = lo

\* C1 amended: of two bins lo < hi that tie at the maximal magnitude, with no
\* later bin qualifying, the scan selects the higher index hi.
C1_HigherIndexWins ==
  ScanDone =>
    \A lo \in Bins : \A hi \in Bins :
      TieBins(lo, hi) => maxMagnitudeIndex = hi

C1_Witness ==
  /\ ScanDone
  /\ \E lo \in Bins : \E hi \in Bins :
       /\ TieBins(lo, hi)
       /\ MagSq(dsaOutput[lo]) > 0
       /\ maxMagnitudeIndex = hi

\* Every bin of both spectra has magnitude 0.
AllZeroSpectra ==
  \A k \in Bins : MagSq(dsaOutput[k]) = 0 /\ MagSq(mioOutput[k]) = 0

\* C2 as stated: when every bin of both spectra has magnitude 0, the selected
\* bin is bin 0.
C2_ZeroInputSelectsDC ==
  (ScanDone /\ AllZeroSpectra) => maxMagnitudeIndex = 0

\* C2 amended: when every bin of both spectra has magnitude 0, the selected
\* bin is the last bin, floor(n/2).
C2_ZeroInputSelectsLastBin ==
  (ScanDone /\ AllZeroSpectra) => maxMagnitudeIndex = n \div 2

C2_Witness ==
  /\ ScanDone
  /\ \A t \in 0..(2 * n - 1) : totalData[t] = 0
  /\ AllZeroSpectra
  /\ maxMagnitudeIndex = n \div 2
  /\ maxMagnitudeIndex >= 1

\* The bin RefClkSync's DFT reports: the last one at which both magnitudes
\* meet the floor.
RefClk_Reports(k) ==
  /\ k \in Bins
  /\ RefClk_PassesFloor(MagSq(dsaOutput[k]), MagSq(mioOutput[k]))
  /\ \A later \in Bins :
       later > k =>
         ~RefClk_PassesFloor(MagSq(dsaOutput[later]), MagSq(mioOutput[later]))

\* C3 as stated: when the reported bin is bin 0 (frequency 0), the phase skew
\* in seconds is a distinct "undefined" result, not the inf or nan of a
\* division by f = 0, in ChnlExpSync and in RefClkSync.
C3_UndefinedAtDC ==
  /\ (ScanDone /\ maxMagnitudeIndex = 0) =>
       measuredPhaseSkewSec.kind = "undefined"
  /\ (rc_pc = "returned" /\ RefClk_Reports(0)) =>
       rc_measuredPhaseSkewSec.kind = "undefined"

C5_SkewDegRange ==
  ScanDone => (-180 < measuredPhaseSkewDeg /\ measuredPhaseSkewDeg <= 180)

\* The two-threshold rule.
WrapRule(d) ==
  CASE d > 270 -> d - 360
    [] d < -90 -> d + 360
    [] OTHER -> d

RawDiff(k) ==
  Atan2Deg(Im(dsaOutput[k]), Re(dsaOutput[k]))
    - Atan2Deg(Im(mioOutput[k]), Re(mioOutput[k]))

\* Both programs have reported, and from the same bin, of frequency > 0.
SameBinReported ==
  /\ ScanDone
  /\ rc_pc = "returned"
  /\ maxMagnitudeIndex > 0
  /\ RefClk_Reports(maxMagnitudeIndex)

\* C7 as stated: for the same bin values with d > 270 or d < -90 and f > 0,
\* the two programs' phaseSkewSec differ.
C7_VariantsDiffer ==
  (/\ SameBinReported
   /\ (RawDiff(maxMagnitudeIndex) > 270 \/ RawDiff(maxMagnitudeIndex) < -90)) =>
    measuredPhaseSkewSec # rc_measuredPhaseSkewSec

\* C7 amended: both programs compute phaseSkewSec from the difference d before
\* normalization, so for the same bin values and f > 0 their phaseSkewSec are
\* equal, also when d > 270 or d < -90.
C7_BothPreNormalization ==
  SameBinReported =>
    /\ measuredPhaseSkewSec =
         SkewSec(RawDiff(maxMagnitudeIndex), BinFreq(maxMagnitudeIndex, n))
    /\ rc_measuredPhaseSkewSec = measuredPhaseSkewSec

C7_Witness ==
  /\ SameBinReported
  /\ RawDiff(maxMagnitudeIndex) > 270
  /\ measuredPhaseSkewSec = rc_measuredPhaseSkewSec
  /\ measuredPhaseSkewSec.kind = "finite"

\* The magnitude bin k shares between the channels (squared).
SharedMagSq(k) == Min(MagSq(dsaOutput[k]), MagSq(mioOutput[k]))

\* C8 as stated: the selected bin has the peak shared magnitude; no bin has a
\* larger min(magA, magB).
C8_PeakSharedMagnitude ==
  ScanDone =>
    \A k \in Bins : SharedMagSq(k) <= SharedMagSq(maxMagnitudeIndex)

\* C9: the spectra scanned have floor(n/2)+1 bins, 0 .. floor(n/2), and the
\* selected index is one of them.
C9_IndexInSpectrum ==
  pc \in {"scan", "estimated"} =>
    /\ DOMAIN dsaOutput = 0..(n \div 2)
    /\ DOMAIN mioOutput = 0..(n \div 2)
    /\ Cardinality(DOMAIN dsaOutput) = (n \div 2) + 1
    /\ 0 <= maxMagnitudeIndex
    /\ maxMagnitudeIndex <= n \div 2
    /\ maxMagnitudeIndex \in DOMAIN dsaOutput
    /\ maxMagnitudeIndex \in DOMAIN mioOutput

C9_Witness ==
  /\ ScanDone
  /\ n % 2 = 1
  /\ maxMagnitudeIndex = n \div 2
  /\ MagSq(dsaOutput[maxMagnitudeIndex]) > 0

\* dsaData and mioData put back in scan order.
Interleave(dsa, mio, nn) ==
  [x \in 0..(2 * nn - 1) |->
     IF x % 2 = 0 THEN dsa[x \div 2] ELSE mio[x \div 2]]

\* C10: after the split, dsaData[k] = totalData[2k] and mioData[k] =
\* totalData[2k+1] for every k < n, and interleaving them again gives
\* totalData.
C10_DemuxRoundTrip ==
  pc \in {"scan", "estimated"} =>
    /\ \A k \in 0..(n - 1) :
         dsaData[k] = totalData[2 * k] /\ mioData[k] = totalData[2 * k + 1]
    /\ Interleave(dsaData, mioData, n) = totalData

C10_Witness ==
  /\ pc = "scan"
  /\ totalData[0] # totalData[1]
  /\ totalData[2] # totalData[3]
  /\ dsaData[0] = totalData[0]
  /\ mioData[1] = totalData[3]

\* The bins RefClkSync's loop has been through that meet the floor on both
\* channels.
RefClk_Passed ==
  {k \in Bins : /\ k < rc_i
                /\ MagSq(dsaOutput[k]) >= MagnitudeFloor * MagnitudeFloor
                /\ MagSq(mioOutput[k]) >= MagnitudeFloor * MagnitudeFloor}

\* The largest element of a non-empty set of bins.
LastOf(S) == CHOOSE k \in S : \A other \in S : other <= k

\* C15: in RefClkSync's DFT the three outputs are written only from a bin at
\* which both magnitudes are at least 5: at every point of the loop they are
\* the values of the last such bin passed, and the initial 0, 0, 0 when there
\* has been none.
C15_ThresholdGating ==
  rc_pc \in {"loop", "returned"} =>
    IF RefClk_Passed = {}
      THEN /\ rc_measuredFreq = Zero
           /\ rc_measuredPhaseSkewDeg = 0
           /\ rc_measuredPhaseSkewSec = Zero
      ELSE LET k == LastOf(RefClk_Passed)
               dsaPhase == Atan2Deg(Im(dsaOutput[k]), Re(dsaOutput[k]))
               mioPhase == Atan2Deg(Im(mioOutput[k]), Re(mioOutput[k]))
           IN  /\ rc_measuredFreq = BinFreq(k, n)
               /\ rc_measuredPhaseSkewDeg =
                    RefClk_NormalizePhaseAngleDifference(dsaPhase - mioPhase)
               /\ rc_measuredPhaseSkewSec =
                    RefClk_phaseSkewSec(dsaPhase, mioPhase, BinFreq(k, n))

\* A bin met the floor on both channels and a later one on the DSA channel
\* only: the outputs are the earlier bin's.
C15_Witness ==
  /\ rc_pc = "returned"
  /\ \E k \in Bins : \E later \in Bins :
       /\ RefClk_Reports(k)
       /\ later > k
       /\ MagSq(dsaOutput[later]) >= MagnitudeFloor * MagnitudeFloor
       /\ MagSq(mioOutput[later]) < MagnitudeFloor * MagnitudeFloor
       /\ rc_measuredFreq = BinFreq(k, n)

\* C19 as stated: in ChnlExpSync's scan the running best is set to exactly
\* magA(k) when bin k is accepted, so once a bin has been accepted (bin 0
\* always is) and after the scan, the running best equals the DSA magnitude
\* of the selected bin.
C19_BestIsSelectedMagnitude ==
  (pc \in {"scan", "estimated"} /\ dft_i > 0) =>
    maxMagnitude * maxMagnitude = MagSq(dsaOutput[maxMagnitudeIndex])

\* C20 as stated: in ChnlExpSync's EveryNCallback dsaRead and mioRead are set
\* to the number of samples per channel the read reported.
C20_CountsAreReported ==
  [][pc = "counts" =>
       /\ dsaRead' = samplesReadPerChan
       /\ mioRead' = samplesReadPerChan]_vars

\* C16 as stated: no step of EveryNCallback makes a running total smaller,
\* also when the int32 total is near its maximum.
C16_TotalsMonotone ==
  [][/\ dsaTotalRead' >= dsaTotalRead
     /\ mioTotalRead' >= mioTotalRead]_vars

\* C11 as stated: when an fftw_malloc or fftw_plan_dft_r2c_1d of DFT returns
\* NULL, the null buffer or plan is never used, and no DFT row or measurement
\* is produced for the chunk.
C11_NullNeverUsed ==
  /\ nullUsed = FALSE
  /\ nullUsed => pc \notin {"scan", "estimated", "finished"}

\* EveryNCallback is about to return, after its last statement.
CallbackReturning == pc \in {"finished", "failed"}

\* The programs whose EveryNCallback calls DFT.
WithDFT == {"ChnlExpSync", "RefClkSync"}

\* C12: a call of EveryNCallback makes at most one DFT pass and prints at most
\* one measurement; when it returns after its read(s) succeeded it has made
\* exactly one pass and printed exactly one measurement, and when it returns
\* after a failed read it has made none and printed none.  (A call that dies
\* in DFT on a null buffer, C11, does not return.)
C12_OnePassPerCallback ==
  prog \in WithDFT =>
    /\ passes <= 1
    /\ prints <= 1
    /\ prints <= passes
    /\ (CallbackReturning /\ error = 0) => (passes = 1 /\ prints = 1)
    /\ (CallbackReturning /\ error < 0) => (passes = 0 /\ prints = 0)

\* RefClkSync: a second call of EveryNCallback is returning after its pass,
\* and the call before it made one as well.
C12_Witness ==
  /\ prog = "RefClkSync"
  /\ pc = "finished"
  /\ chunks = 2
  /\ passes = 1
  /\ prints = 1
  /\ dftRows = 2 * (1 + nc(n))

\* A call of EveryNCallback has failed and returned.
ChunkFailed == pc = "idle" /\ error < 0

\* C13 as stated: after a call of EveryNCallback that failed, the tasks are
\* still running.
C13_StreamContinues ==
  ChunkFailed => \A t \in TaskNames(prog) : tasks[t] = "running"

\* C13 amended: one bad chunk stops the stream.  After a call of
\* EveryNCallback whose read failed, every task of the program has been
\* cleared, and no later chunk is read.
C13_FailureStopsStream ==
  ChunkFailed =>
    /\ \A t \in TaskNames(prog) : tasks[t] = "cleared"
    /\ ~ENABLED (ReadChunk \/ ReadFail \/ TT_ReadDSA)

\* A chunk failed while more calls of EveryNCallback could follow; main still
\* waits in getchar and has reset no handle.
C13_Witness ==
  /\ ChunkFailed
  /\ mainpc = "getchar"
  /\ chunks < MaxCallbacks
  /\ \A t \in TaskNames(prog) : handles[t] # 0

\* The two-task programs.
TwoTask == {"RefClkSync", "Sync_4499_6259"}

\* C14: in RefClkSync and Sync_4499_6259, when EveryNCallback returns after a
\* read of either device failed, the DSA task and the MIO task have both been
\* stopped and cleared, no row was added to a CSV file and the totals are what
\* they were when the call began.
C14_ReadErrorClearsBoth ==
  (prog \in TwoTask /\ pc = "failed") =>
    /\ error < 0
    /\ tasks["DSATaskHandle"] = "cleared"
    /\ tasks["MIOTaskHandle"] = "cleared"
    /\ Snapshot = atEntry

\* The DSA read succeeded and the MIO read failed, in a call after one that
\* added rows and totals; main has not begun its cleanup.
C14_Witness ==
  /\ prog \in TwoTask
  /\ pc = "failed"
  /\ mainpc = "getchar"
  /\ chunks = 2
  /\ dsaRead > 0
  /\ voltageRows > 0
  /\ dsaTotalRead > 0
  /\ handles["MIOTaskHandle"] # 0

\* C17: in the two-task programs the MIO task is started before the DSA task:
\* whenever the DSA task has been started, the MIO task was started just
\* before it, successfully.
C17_SlaveStartedFirst ==
  prog \in TwoTask =>
    /\ \A k \in 1..Len(started) :
         started[k] = "DSATaskHandle" =>
           k > 1 /\ started[k - 1] = "MIOTaskHandle"
    /\ tasks["DSATaskHandle"] = "running" =>
         tasks["MIOTaskHandle"] \notin {"none", "created"}

C17_Witness ==
  /\ prog \in TwoTask
  /\ started = <<"MIOTaskHandle", "DSATaskHandle">>
  /\ tasks["DSATaskHandle"] = "running"
  /\ tasks["MIOTaskHandle"] = "running"

\* The calls of main's cleanup that name handle t.
MainCallsOn(t) ==
  LET OnT(c) == c[2] = t
      sel == SelectSeq(mainCalls, OnT)
  IN  [k \in 1..Len(sel) |-> sel[k][1]]

CleanupOf == <<"stop", "clear", "zero">>

\* C18: main's cleanup stops, then clears, then resets each handle it finds
\* non-zero, in that order; when main returns every handle is 0 and every task
\* that was created has been cleared; and a task whose creation failed is never
\* stopped or cleared.
C18_MainCleanup ==
  \A t \in TaskNames(prog) :
    /\ \E len \in 0..3 : MainCallsOn(t) = SubSeq(CleanupOf, 1, len)
    /\ tasks[t] = "none" => MainCallsOn(t) = <<>>
    /\ mainpc = "done" =>
         /\ handles[t] = 0
         /\ MainCallsOn(t) \in {<<>>, CleanupOf}
         /\ tasks[t] # "none" => tasks[t] = "cleared"
         /\ (tasks[t] # "none" /\ t # "MIOTaskHandle") =>
              MainCallsOn(t) = CleanupOf
         /\ (tasks[t] # "none" /\ MainCallsOn(t) = <<>>) => status < 0

\* main returns after a failing DAQmxCreateTask for the MIO task: the DSA task
\* was stopped, cleared and reset, the MIO task never touched.
C18_Witness ==
  /\ prog \in TwoTask
  /\ mainpc = "done"
  /\ m_error < 0
  /\ tasks["MIOTaskHandle"] = "none"
  /\ tasks["DSATaskHandle"] = "cleared"
  /\ mainCalls = <<<<"stop", "DSATaskHandle">>, <<"clear", "DSATaskHandle">>,
                   <<"zero", "DSATaskHandle">>>>

\* C21 as stated: in every interleaving of main, EveryNCallback and
\* DoneCallback no DAQmxStopTask or DAQmxClearTask call is made on a task that
\* has been cleared already.
C21_NoCallOnClearedTask == staleCall = FALSE

\* C22 as stated: in ChnlExpSync, once main has opened the two CSV files they
\* are closed when main returns, on every path, and no row is written to a
\* file after its fclose.
C22_FilesClosedAtExit ==
  /\ (prog = "ChnlExpSync" /\ mainpc = "done" /\ files # "unopened") =>
       files = "closed"
  /\ lateWrite = FALSE

====
